---- MODULE Spec2Model ----
(***************************************************************************)
(* A model of pyomd/note.py: the Note and Notes classes.                   *)
(*                                                                         *)
(* A string is a sequence of one-character strings, a text is a sequence   *)
(* of lines, each line standing for its characters followed by "\n".       *)
(* An optional argument is a sequence of length 0 (None) or 1 (a value).   *)
(*                                                                         *)
(* pyomd/metadata.py (NoteMetadata and MetadataType) is imported by        *)
(* note.py but is not among the source files; its parse, has and           *)
(* update_content are modelled from sections 4.1, 4.2, 4.3 and 6 of the    *)
(* specification.                                                          *)
(***************************************************************************)
EXTENDS Integers, Sequences, FiniteSets, TLC

(***************************************************************************)
(* Bounds of the model.                                                    *)
(***************************************************************************)
\* Most operations called on one Note after its construction.
MaxNoteOps == 4
\* Most operations called on one Notes object after its construction.
MaxNotesOps == 2

(***************************************************************************)
(* Strings.                                                                *)
(***************************************************************************)
None == <<>>

Some(x) == <<x>>

\* s[i..j], empty when i > j.
Slice(s, i, j) == IF i > j THEN <<>> ELSE SubSeq(s, i, j)

\* str.startswith
startswith(s, p) ==
    /\ Len(p) <= Len(s)
    /\ \A i \in 1..Len(p) : s[i] = p[i]

\* str.endswith
endswith(s, p) ==
    /\ Len(p) <= Len(s)
    /\ \A i \in 1..Len(p) : s[Len(s) - Len(p) + i] = p[i]

\* Whether p occurs in s at position i.
OccursAt(s, p, i) ==
    /\ i + Len(p) - 1 <= Len(s)
    /\ \A j \in 1..Len(p) : s[i + j - 1] = p[j]

\* The first position of p in s from position i on, 0 when there is none.
RECURSIVE Find(_, _, _)
Find(s, p, i) ==
    IF i + Len(p) - 1 > Len(s) THEN 0
    ELSE IF OccursAt(s, p, i) THEN i
    ELSE Find(s, p, i + 1)

\* str.strip for the blank character.
RECURSIVE LStrip(_)
LStrip(s) == IF s # <<>> /\ Head(s) = " " THEN LStrip(Tail(s)) ELSE s

RECURSIVE RStrip(_)
RStrip(s) ==
    IF s # <<>> /\ s[Len(s)] = " " THEN RStrip(Slice(s, 1, Len(s) - 1)) ELSE s

Strip(s) == LStrip(RStrip(s))

\* str.split(","), each piece stripped.
RECURSIVE SplitComma(_)
SplitComma(s) ==
    LET p == Find(s, <<",">>, 1)
    IN  IF p = 0 THEN <<Strip(s)>>
        ELSE <<Strip(Slice(s, 1, p - 1))>> \o SplitComma(Slice(s, p + 1, Len(s)))

\* ", ".join(vals)
RECURSIVE JoinComma(_)
JoinComma(vals) ==
    IF vals = <<>> THEN <<>>
    ELSE IF Len(vals) = 1 THEN vals[1]
    ELSE vals[1] \o <<",", " ">> \o JoinComma(Tail(vals))

\* The concatenation of a sequence of sequences.
RECURSIVE Flatten(_)
Flatten(ss) == IF ss = <<>> THEN <<>> ELSE Head(ss) \o Flatten(Tail(ss))

Range(s) == {s[i] : i \in 1..Len(s)}

(***************************************************************************)
(* Regular expressions (module re): a pattern is a string in which "."     *)
(* stands for any character, "*" repeats the atom before it (greedy),      *)
(* and "\" makes the character after it literal.                           *)
(***************************************************************************)
ReSpecial == {".", "*", "\\"}

\* re.escape
RECURSIVE re_escape(_)
re_escape(p) ==
    IF p = <<>> THEN <<>>
    ELSE (IF Head(p) \in ReSpecial THEN <<"\\", Head(p)>> ELSE <<Head(p)>>)
         \o re_escape(Tail(p))

\* re.compile: the atoms of a pattern.
RECURSIVE re_compile(_)
re_compile(p) ==
    IF p = <<>> THEN <<>>
    ELSE LET esc  == Head(p) = "\\" /\ Len(p) >= 2
             ch   == IF esc THEN p[2] ELSE Head(p)
             rest == IF esc THEN Tail(Tail(p)) ELSE Tail(p)
             star == rest # <<>> /\ Head(rest) = "*"
         IN  <<[ch |-> ch, any |-> (~esc /\ ch = "."), star |-> star]>>
             \o re_compile(IF star THEN Tail(rest) ELSE rest)

AtomMatches(a, c) == a.any \/ a.ch = c

\* The number of characters of s from position i on that atom a matches.
RECURSIVE RunLen(_, _, _)
RunLen(a, s, i) ==
    IF i <= Len(s) /\ AtomMatches(a, s[i]) THEN 1 + RunLen(a, s, i + 1) ELSE 0

\* The position after the match of atoms k.. at position i of s, found by
\* backtracking with greedy repetition; 0 when there is none.
RECURSIVE MatchEnd(_, _, _, _)
RECURSIVE StarEnd(_, _, _, _, _)
MatchEnd(atoms, k, s, i) ==
    IF k > Len(atoms) THEN i
    ELSE IF atoms[k].star THEN StarEnd(atoms, k, s, i, RunLen(atoms[k], s, i))
    ELSE IF i <= Len(s) /\ AtomMatches(atoms[k], s[i])
         THEN MatchEnd(atoms, k + 1, s, i + 1)
    ELSE 0

StarEnd(atoms, k, s, i, n) ==
    LET e == MatchEnd(atoms, k + 1, s, i + n)
    IN  IF e # 0 THEN e
        ELSE IF n = 0 THEN 0
        ELSE StarEnd(atoms, k, s, i, n - 1)

\* re.match(pattern, s): a match at the start of s.
re_match(pattern, s) == MatchEnd(re_compile(pattern), 1, s, 1) # 0

\* re.sub on one line, from position i on: the leftmost matches, not
\* overlapping, are replaced.  The patterns used match no empty string.
RECURSIVE SubFrom(_, _, _, _)
SubFrom(atoms, replace, s, i) ==
    IF i > Len(s) THEN <<>>
    ELSE LET e == MatchEnd(atoms, 1, s, i)
         IN  IF e > i THEN replace \o SubFrom(atoms, replace, s, e)
             ELSE <<s[i]>> \o SubFrom(atoms, replace, s, i + 1)

\* re.sub(pattern, replace, text) for a pattern that matches no line break:
\* every line is substituted on its own.
re_sub(pattern, replace, text) ==
    [i \in 1..Len(text) |-> SubFrom(re_compile(pattern), replace, text[i], 1)]

(***************************************************************************)
(* pyomd.metadata, from the specification (sections 3, 4.1, 4.2, 4.3, 6).  *)
(* A NoteMetadata is [fm, inl]: the frontmatter entries [key, vals] and    *)
(* the inline entries [key, vals, loc], each in insertion order; loc is    *)
(* the line the entry was parsed from, 0 for a New entry.                  *)
(***************************************************************************)
\* The frontmatter delimiter line.
Marker == <<"-", "-", "-">>

Frontmatter == "Frontmatter"

Inline == "Inline"

\* MetadataType.Any (Any is an operator of the TLC module).
AnyType == "Any"

MetadataType == {Frontmatter, Inline, AnyType}

\* The first line from i on that is the delimiter, 0 when there is none.
RECURSIVE NextMarker(_, _)
NextMarker(text, i) ==
    IF i > Len(text) THEN 0
    ELSE IF text[i] = Marker THEN i
    ELSE NextMarker(text, i + 1)

\* The closing delimiter's line when the text begins with a frontmatter
\* block, 0 when it has none.
FmEnd(text) ==
    IF text # <<>> /\ text[1] = Marker THEN NextMarker(text, 2) ELSE 0

\* A frontmatter line "key: value" or "key: [v1, v2]": <<entry>>, or <<>>
\* for a malformed line.
ParseFmLine(line) ==
    LET p    == Find(line, <<":">>, 1)
        key  == Strip(Slice(line, 1, p - 1))
        rest == Strip(Slice(line, p + 1, Len(line)))
        list == /\ Len(rest) >= 2
                /\ rest[1] = "["
                /\ rest[Len(rest)] = "]"
        in   == Strip(Slice(rest, 2, Len(rest) - 1))
    IN  IF p = 0 \/ key = <<>> THEN <<>>
        ELSE <<[key  |-> key,
                vals |-> IF rest = <<>> THEN <<>>
                         ELSE IF ~list THEN <<rest>>
                         ELSE IF in = <<>> THEN <<>>
                         ELSE SplitComma(in)]>>

\* A body line "key:: value1, value2": <<[key, vals]>>, or <<>> for a line
\* of another shape.
ParseInlineLine(line) ==
    LET p    == Find(line, <<":", ":">>, 1)
        key  == Slice(line, 1, p - 1)
        rest == Strip(Slice(line, p + 2, Len(line)))
    IN  IF p = 0 \/ key = <<>> \/ " " \in Range(key) THEN <<>>
        ELSE <<[key  |-> key,
                vals |-> IF rest = <<>> THEN <<>> ELSE SplitComma(rest)]>>

\* The position of the entry for key among entries, 0 when there is none.
RECURSIVE KeyIndex(_, _, _)
KeyIndex(entries, key, i) ==
    IF i > Len(entries) THEN 0
    ELSE IF entries[i].key = key THEN i
    ELSE KeyIndex(entries, key, i + 1)

\* One entry per key: a later entry for a key replaces the earlier one where
\* that one stands.
Upsert(entries, e) ==
    LET i == KeyIndex(entries, e.key, 1)
    IN  IF i = 0 THEN Append(entries, e) ELSE [entries EXCEPT ![i] = e]

\* The frontmatter entries of lines i..j of the text.
RECURSIVE ParseFm(_, _, _)
ParseFm(text, i, j) ==
    IF i > j THEN <<>>
    ELSE LET e == ParseFmLine(text[j])
         IN  IF e = <<>> THEN ParseFm(text, i, j - 1)
             ELSE Upsert(ParseFm(text, i, j - 1), e[1])

\* The inline entries of lines i..j of the text.
RECURSIVE ParseInline(_, _, _)
ParseInline(text, i, j) ==
    IF i > j THEN <<>>
    ELSE LET e == ParseInlineLine(text[j])
         IN  IF e = <<>> THEN ParseInline(text, i, j - 1)
             ELSE Upsert(ParseInline(text, i, j - 1),
                         [key |-> e[1].key, vals |-> e[1].vals, loc |-> j])

\* NoteMetadata(text): section 4.1.
NoteMetadata(text) ==
    LET fe == FmEnd(text)
    IN  [fm  |-> ParseFm(text, 2, fe - 1),
         inl |-> ParseInline(text, fe + 1, Len(text))]

\* "key: v", "key: [v1, v2]", and "key:" for an empty value list.
SerFm(e) ==
    e.key \o <<":">> \o
    (IF e.vals = <<>> THEN <<>>
     ELSE IF Len(e.vals) = 1 THEN <<" ">> \o e.vals[1]
     ELSE <<" ", "[">> \o JoinComma(e.vals) \o <<"]">>)

\* "key:: v1, v2", and "key::" for an empty value list.
SerInline(e) ==
    e.key \o <<":", ":">> \o
    (IF e.vals = <<>> THEN <<>> ELSE <<" ">> \o JoinComma(e.vals))

\* The frontmatter block of the entries: nothing when there are none.
FmBlock(fm) ==
    IF fm = <<>> THEN <<>>
    ELSE <<Marker>> \o [i \in 1..Len(fm) |-> SerFm(fm[i])] \o <<Marker>>

\* The inline pass over body lines i..j of the text: a line an entry is
\* located at is rewritten (in place) or removed; the others are copied.
RECURSIVE InlinePass(_, _, _, _, _)
InlinePass(text, inl, inplace, i, j) ==
    IF i > j THEN <<>>
    ELSE LET at == SelectSeq(inl, LAMBDA e : e.loc = i)
         IN  (IF at = <<>> THEN <<text[i]>>
              ELSE IF inplace THEN <<SerInline(at[1])>>
              ELSE <<>>)
             \o InlinePass(text, inl, inplace, i + 1, j)

\* The consolidated block: the New entries, and every entry when the
\* existing ones are not rewritten in place.
InlineBlock(inl, inplace) ==
    LET es == SelectSeq(inl, LAMBDA e : ~inplace \/ e.loc = 0)
    IN  [i \in 1..Len(es) |-> SerInline(es[i])]

\* NoteMetadata.update_content(text, inline_how, inline_inplace): the render
\* of section 4.3.
md_update_content(md, text, inline_how, inline_inplace) ==
    LET body  == InlinePass(text, md.inl, inline_inplace,
                            FmEnd(text) + 1, Len(text))
        block == InlineBlock(md.inl, inline_inplace)
    IN  IF inline_how = "top"
        THEN FmBlock(md.fm) \o block \o body
        ELSE FmBlock(md.fm) \o body \o block

\* Whether every value of l is among vals.
HasVals(vals, l) == \A i \in 1..Len(l) : l[i] \in Range(vals)

\* NoteMetadata.has(k, l, meta_type): section 4.2.
has(md, k, l, meta_type) ==
    \/ /\ meta_type \in {Frontmatter, AnyType}
       /\ \E i \in 1..Len(md.fm) : md.fm[i].key = k /\ HasVals(md.fm[i].vals, l)
    \/ /\ meta_type \in {Inline, AnyType}
       /\ \E i \in 1..Len(md.inl) : md.inl[i].key = k /\ HasVals(md.inl[i].vals, l)

(***************************************************************************)
(* The files the model runs on.  A path is the sequence of its components, *)
(* a file name a string.                                                   *)
(***************************************************************************)
L_hi == <<"h", "i">>

L_a1 == <<"a", ":", ":", " ", "1">>

L_b2 == <<"b", ":", ":", " ", "2">>

L_a3 == <<"a", ":", ":", " ", "3">>

\* "a::1,2": an inline line that is not spaced the way it is serialized.
L_a12 == <<"a", ":", ":", "1", ",", "2">>

L_k == <<"k", ":", " ", "v">>

L_t == <<"t", ":", " ", "[", "x", ",", " ", "y", "]">>

L_stok == <<"s", "t", ":", ":", " ", "o", "k">>

L_stnook == <<"s", "t", ":", ":", " ", "n", "o", ",", " ", "o", "k">>

L_fmstok == <<"s", "t", ":", " ", "o", "k">>

\* The texts a note is loaded from.
Texts ==
    { <<L_hi>>,
      <<L_a1, L_b2, L_hi>>,
      <<L_hi, L_a1, L_hi>>,
      <<Marker, L_k, L_t, Marker, L_hi, L_a1>>,
      <<Marker, L_k, L_hi, Marker, L_a1>>,
      <<Marker, Marker, L_hi, L_b2>>,
      <<L_a12, L_hi>>,
      <<L_a1, L_hi, L_a3>> }

P_n1 == <<<<"n", "1", ".", "m">>>>

P_n2 == <<<<"n", "2", ".", "m">>>>

P_ro == <<<<"r", "o", ".", "m">>>>

\* The paths of the single-note model: P_n2 names no file at first, P_ro is
\* a file that cannot be written.
NotePaths == {P_n1, P_n2, P_ro}

ReadOnly == {P_ro}

\* The tree of the collection model: files a1.m, d/a2.m, d/b2.t, d/s/c2.m,
\* directories d and d/s; z exists nowhere.
N_d == <<"d">>

N_s == <<"s">>

P_a1 == <<<<"a", "1", ".", "m">>>>

P_a2 == <<N_d, <<"a", "2", ".", "m">>>>

P_b2 == <<N_d, <<"b", "2", ".", "t">>>>

P_c2 == <<N_d, N_s, <<"c", "2", ".", "m">>>>

P_d == <<N_d>>

P_s == <<N_d, N_s>>

P_z == <<<<"z">>>>

FileSet == {P_a1, P_a2, P_b2, P_c2}

DirSet == {P_d, P_s}

FileText ==
    (P_a1 :> <<L_stok>>) @@
    (P_a2 :> <<Marker, L_fmstok, Marker, L_hi>>) @@
    (P_b2 :> <<L_stnook, L_hi>>) @@
    (P_c2 :> <<L_hi>>)

\* Path.exists
exists(p) == p \in FileSet \cup DirSet

\* Path.is_dir
is_dir(p) == p \in DirSet

\* Path.name
name(p) == p[Len(p)]

\* The entries of kind set directly in directory d.
ChildrenIn(set, d) ==
    {p \in set : Len(p) = Len(d) + 1 /\ SubSeq(p, 1, Len(d)) = d}

\* The orders in which the members of a set can be listed.
RECURSIVE Orders(_)
Orders(set) ==
    IF set = {} THEN {<<>>}
    ELSE UNION {{<<x>> \o o : o \in Orders(set \ {x})} : x \in set}

\* The listings os.walk can make of the tree: for every directory, its files
\* and its subdirectories, each in the order the system lists them.
Listings ==
    {[files |-> f, dirs |-> g] :
        f \in {h \in [DirSet -> UNION {Orders(ChildrenIn(FileSet, d)) : d \in DirSet}] :
                  \A d \in DirSet : h[d] \in Orders(ChildrenIn(FileSet, d))},
        g \in {h \in [DirSet -> UNION {Orders(ChildrenIn(DirSet, d)) : d \in DirSet}] :
                  \A d \in DirSet : h[d] \in Orders(ChildrenIn(DirSet, d))}}

(***************************************************************************)
(* State.                                                                  *)
(***************************************************************************)
VARIABLES
    path,       \* Note.path
    content,    \* Note.content
    metadata,   \* Note.metadata
    disk,       \* the files: for every path, None or Some(text)
    notes,      \* Notes.notes: a sequence of [path, content, metadata]
    base,       \* Notes.notes as the last add (or the constructor) left it
    last,       \* the last operation: its name, arguments and outcome (and,
                \* for a Notes object, the name of the one before it)
    ops         \* the number of operations called since the construction

vars == <<path, content, metadata, disk, notes, base, last, ops>>

noteVars == <<path, content, metadata, disk>>

(***************************************************************************)
(* class Note                                                              *)
(***************************************************************************)
\* Note.__init__: the path, the text read from it and its parse.
Note(p, text) == [path |-> p, content |-> text, metadata |-> NoteMetadata(text)]

\* The files after open(p, "w") and f.write(text).
Written(files, p, text) == [files EXCEPT ![p] = Some(text)]

\* open(p, "w") raises for a path that cannot be written.
Writable(p) == p \notin ReadOnly

\* A write that takes the path it wrote to as the note's path.
PathAfterWriteRebinds(cur, target) == target

\* What Note.write(p) leaves: the note's path, which it never assigns.
PathAfterWrite(cur, target) == cur

\* Note.write(path=p): p is None or Some(a path).
write(p) ==
    LET target == IF p = None THEN path ELSE p[1]
    IN  /\ ops < MaxNoteOps
        /\ ops' = ops + 1
        /\ path' = PathAfterWrite(path, target)
        /\ disk' = IF Writable(target) THEN Written(disk, target, content)
                   ELSE disk
        /\ last' = [op |-> "write", ok |-> Writable(target),
                    args |-> [path |-> p]]
        /\ UNCHANGED <<content, metadata, notes, base>>

\* An update_content that writes whatever its write argument is.
DoesWriteAlways(wr) == TRUE

\* Whether update_content goes on to self.write().
DoesWrite(wr) == wr

\* An update_content that catches the error of self.write().
UpdateReturnsSwallowed(wr, writable) == TRUE

\* Whether the call returns normally: an error of self.write() is not caught.
UpdateReturns(wr, writable) == ~wr \/ writable

\* Note.update_content(inline_how, inline_inplace, write)
update_content(inline_how, inline_inplace, wr) ==
    LET new == md_update_content(metadata, content, inline_how, inline_inplace)
    IN  /\ ops < MaxNoteOps
        /\ ops' = ops + 1
        /\ content' = new
        /\ disk' = IF DoesWrite(wr) /\ Writable(path)
                   THEN Written(disk, path, new) ELSE disk
        /\ last' = [op |-> "update_content",
                    ok |-> UpdateReturns(DoesWrite(wr), Writable(path)),
                    args |-> [inline_how |-> inline_how,
                              inline_inplace |-> inline_inplace,
                              write |-> wr]]
        /\ UNCHANGED <<path, metadata, notes, base>>

\* A sub that parses the substituted content again.
MetadataAfterSubReparsed(md, text) == NoteMetadata(text)

\* What Note.sub leaves of the metadata: it is not parsed again.
MetadataAfterSub(md, text) == md

\* Note.sub(pattern, replace, is_regex)
sub(pattern, replace, is_regex) ==
    LET pat == IF ~is_regex THEN re_escape(pattern) ELSE pattern
        new == re_sub(pat, replace, content)
    IN  /\ ops < MaxNoteOps
        /\ ops' = ops + 1
        /\ content' = new
        /\ metadata' = MetadataAfterSub(metadata, new)
        /\ last' = [op |-> "sub", ok |-> TRUE,
                    args |-> [pattern |-> pattern, replace |-> replace,
                              is_regex |-> is_regex]]
        /\ UNCHANGED <<path, disk, notes, base>>

\* The arguments the operations of a note are called with.
WriteArgs == {None, Some(P_n2), Some(P_ro)}

\* Pairs of a pattern and a replacement: "1" by "2", and "h." by "c::3".
SubArgs == {<<<<"1">>, <<"2">>>>, <<<<"h", ".">>, <<"c", ":", ":", "3">>>>}

\* A note constructed from one of the files.
InitNote ==
    \E p \in {P_n1, P_ro}, t \in Texts :
        /\ disk = [q \in NotePaths |-> IF q = P_n2 THEN None ELSE Some(t)]
        /\ path = p
        /\ content = t
        /\ metadata = NoteMetadata(t)
        /\ notes = <<>>
        /\ base = <<>>
        /\ last = [op |-> "load", ok |-> TRUE, args |-> [path |-> p]]
        /\ ops = 0

NextNote ==
    \/ \E p \in WriteArgs : write(p)
    \/ \E how \in {"top", "bottom"}, inplace \in BOOLEAN, wr \in BOOLEAN :
           update_content(how, inplace, wr)
    \/ \E a \in SubArgs, is_regex \in BOOLEAN : sub(a[1], a[2], is_regex)

SpecNote == InitNote /\ [][NextNote]_vars

(***************************************************************************)
(* class Notes                                                             *)
(***************************************************************************)
\* The files os.walk(d) yields, top down: those of d, then (unless the loop
\* breaks after the first directory) those of its subdirectories.
RECURSIVE Walk(_, _, _)
RECURSIVE WalkAll(_, _, _)
Walk(d, recursive, ls) ==
    ls.files[d] \o (IF recursive THEN WalkAll(ls.dirs[d], recursive, ls) ELSE <<>>)

WalkAll(ds, recursive, ls) ==
    IF ds = <<>> THEN <<>>
    ELSE Walk(Head(ds), recursive, ls) \o WalkAll(Tail(ds), recursive, ls)

\* The notes one path of Notes.add makes: one per file.
NotesOf(pth, recursive, ls) ==
    IF is_dir(pth)
    THEN LET fs == Walk(pth, recursive, ls)
         IN  [i \in 1..Len(fs) |-> Note(fs[i], FileText[fs[i]])]
    ELSE <<Note(pth, FileText[pth])>>

\* An append that skips the notes the list already holds.
AppendedDedup(ns, new) == ns \o SelectSeq(new, LAMBDA n : n \notin Range(ns))

\* self.notes.append, for the notes of one path.
Appended(ns, new) == ns \o new

\* The loop of Notes.add over the paths: the notes it leaves, and whether it
\* ended without the assertion failing.
RECURSIVE AddLoop(_, _, _, _)
AddLoop(ns, paths, recursive, ls) ==
    IF paths = <<>> THEN [notes |-> ns, ok |-> TRUE]
    ELSE IF ~exists(Head(paths)) THEN [notes |-> ns, ok |-> FALSE]
    ELSE AddLoop(Appended(ns, NotesOf(Head(paths), recursive, ls)),
                 Tail(paths), recursive, ls)

\* Notes.add(paths, recursive), the directories listed as ls.
add(paths, recursive, ls) ==
    LET r == AddLoop(notes, paths, recursive, ls)
    IN  /\ ops < MaxNotesOps
        /\ ops' = ops + 1
        /\ notes' = r.notes
        /\ base' = r.notes
        /\ last' = [op |-> "add", ok |-> r.ok, prev |-> last.op,
                    args |-> [paths |-> paths, recursive |-> recursive]]
        /\ UNCHANGED noteVars

\* A selection that builds its list from the back.
RECURSIVE ZipSelectReversed(_, _)
ZipSelectReversed(ns, include) ==
    IF ns = <<>> \/ include = <<>> THEN <<>>
    ELSE ZipSelectReversed(Tail(ns), Tail(include))
         \o (IF Head(include) THEN <<Head(ns)>> ELSE <<>>)

\* [n for (n, inc) in zip(ns, include) if inc]
RECURSIVE ZipSelect(_, _)
ZipSelect(ns, include) ==
    IF ns = <<>> \/ include = <<>> THEN <<>>
    ELSE (IF Head(include) THEN <<Head(ns)>> ELSE <<>>)
         \o ZipSelect(Tail(ns), Tail(include))

\* An inner loop that keeps the answer of the last tuple alone.
IncLast(note, has_meta) ==
    IF has_meta = <<>> THEN TRUE
    ELSE LET t == has_meta[Len(has_meta)]
         IN  has(note.metadata, t[1], t[2], t[3])

\* The inner loop of filter over has_meta, for one note.
RECURSIVE Inc(_, _)
Inc(note, has_meta) ==
    IF has_meta = <<>> THEN TRUE
    ELSE LET t == Head(has_meta)
         IN  IF ~has(note.metadata, t[1], t[2], t[3])
             THEN Inc(note, Tail(has_meta)) /\ FALSE
             ELSE Inc(note, Tail(has_meta))

\* The four steps of Notes.filter, each on what the one before it left.
ByStart(ns, starts_with) ==
    IF starts_with # None
    THEN SelectSeq(ns, LAMBDA n : startswith(name(n.path), starts_with[1]))
    ELSE ns

ByEnd(ns, ends_with) ==
    IF ends_with # None
    THEN SelectSeq(ns, LAMBDA n : endswith(name(n.path), ends_with[1]))
    ELSE ns

ByPattern(ns, pattern) ==
    IF pattern # None
    THEN SelectSeq(ns, LAMBDA n : re_match(pattern[1], name(n.path)))
    ELSE ns

ByMeta(ns, has_meta) ==
    IF has_meta # None
    THEN ZipSelect(ns, [i \in 1..Len(ns) |-> Inc(ns[i], has_meta[1])])
    ELSE ns

\* Notes.filter(starts_with, ends_with, pattern, has_meta)
filter(starts_with, ends_with, pattern, has_meta) ==
    /\ ops < MaxNotesOps
    /\ ops' = ops + 1
    /\ notes' = ByMeta(ByPattern(ByEnd(ByStart(notes, starts_with), ends_with),
                                 pattern), has_meta)
    /\ last' = [op |-> "filter", ok |-> TRUE, prev |-> last.op,
                args |-> [starts_with |-> starts_with, ends_with |-> ends_with,
                          pattern |-> pattern, has_meta |-> has_meta]]
    /\ UNCHANGED <<base, path, content, metadata, disk>>

\* The arguments the operations of a collection are called with.
PathLists ==
    { <<>>, <<P_a1>>, <<P_d>>, <<P_z>>, <<P_a1, P_z>>, <<P_a1, P_a1>>,
      <<P_s, P_a1>> }

K_st == <<"s", "t">>

V_ok == <<"o", "k">>

V_no == <<"n", "o">>

HasMetaArgs ==
    { None,
      Some(<<>>),
      Some(<< <<K_st, <<V_ok>>, Inline>> >>),
      Some(<< <<K_st, <<V_ok>>, AnyType>> >>),
      Some(<< <<K_st, <<V_no>>, Inline>>, <<K_st, <<V_ok>>, AnyType>> >>) }

StartsArgs == {None, Some(<<"a">>)}

EndsArgs == {None, Some(<<".", "m">>)}

PatternArgs == {None, Some(<<".", "*", "2">>)}

\* Notes.__init__: an empty list, then add, which has not failed.
InitNotes ==
    \E paths \in PathLists, recursive \in BOOLEAN, ls \in Listings :
        LET r == AddLoop(<<>>, paths, recursive, ls)
        IN  /\ r.ok
            /\ notes = r.notes
            /\ base = r.notes
            /\ last = [op |-> "init", ok |-> TRUE, prev |-> "", args |-> <<>>]
            /\ ops = 0
            /\ path = None
            /\ content = <<>>
            /\ metadata = NoteMetadata(<<>>)
            /\ disk = [q \in NotePaths |-> None]

NextNotes ==
    \/ \E paths \in PathLists, recursive \in BOOLEAN, ls \in Listings :
           add(paths, recursive, ls)
    \/ \E sw \in StartsArgs, ew \in EndsArgs, pat \in PatternArgs,
          hm \in HasMetaArgs : filter(sw, ew, pat, hm)

SpecNotes == InitNotes /\ [][NextNotes]_vars

(***************************************************************************)
(* Properties of a Note, checked under SpecNote.                           *)
(***************************************************************************)
\* C4: the first update_content on a loaded note, called with
\* inline_inplace=True, leaves the content equal to the loaded text, for
\* inline_how "top" and "bottom".
C4_RoundTrip ==
    [][(/\ last.op = "load"
        /\ last'.op = "update_content"
        /\ last'.args.inline_inplace) => content' = content]_vars

\* C5: an update_content that follows an update_content with the same
\* inline_how and inline_inplace leaves the content as the first left it.
C5_Idempotent ==
    [][(/\ last.op = "update_content"
        /\ last'.op = "update_content"
        /\ last'.args.inline_how = last.args.inline_how
        /\ last'.args.inline_inplace = last.args.inline_inplace)
       => content' = content]_vars

\* C6: update_content with write=False makes the content the render of the
\* content and the metadata it found, and leaves the path, the metadata and
\* every file as they were; files change only by write and by
\* update_content with write=True.
C6_UpdateInMemory ==
    [][/\ (last'.op = "update_content" /\ ~last'.args.write) =>
            /\ content' = md_update_content(metadata, content,
                   last'.args.inline_how, last'.args.inline_inplace)
            /\ path' = path
            /\ metadata' = metadata
            /\ disk' = disk
       /\ disk' # disk =>
            \/ last'.op = "write"
            \/ last'.op = "update_content" /\ last'.args.write]_vars

\* An update_content with write=False has changed the content, and the file
\* of the note does not hold it.
C6_Witness ==
    /\ last.op = "update_content"
    /\ ~last.args.write
    /\ ops = 1
    /\ disk[path] # Some(content)

\* C7: sub leaves the metadata and the path (and the files) as they were.
C7_SubFrame ==
    [][last'.op = "sub" =>
            /\ metadata' = metadata
            /\ path' = path
            /\ disk' = disk]_vars

\* A sub has changed the content so that its parse is no longer the
\* metadata of the note.
C7_Witness ==
    /\ last.op = "sub"
    /\ ops = 1
    /\ disk[path] # Some(content)
    /\ metadata # NoteMetadata(content)

\* C8: update_content with write=True on a note whose path cannot be
\* written does not return normally, and no file is changed.
C8_WriteErrorPropagates ==
    [][(/\ last'.op = "update_content"
        /\ last'.args.write
        /\ ~Writable(path)) => (~last'.ok /\ disk' = disk)]_vars

\* An update_content with write=True has failed on the file of the note.
C8_Witness ==
    /\ last.op = "update_content"
    /\ last.args.write
    /\ ~Writable(path)
    /\ ~last.ok

\* C10: no operation changes the path; a write that succeeds leaves the
\* content in the file it was given, or in the file of the note's path when
\* it was given none.
C10_PathFixed ==
    [][/\ path' = path
       /\ (last'.op = "write" /\ last'.ok) =>
            /\ last'.args.path = None => disk'[path] = Some(content)
            /\ last'.args.path # None =>
                   disk'[last'.args.path[1]] = Some(content)]_vars

\* A write to another path has succeeded, and a write with no argument after
\* it has put the content in the file of the note's own path.
C10_Witness ==
    /\ last.op = "write"
    /\ last.ok
    /\ last.args.path = None
    /\ path = P_n1
    /\ disk[P_n2] # None
    /\ disk[P_n1] = Some(content)

(***************************************************************************)
(* Properties of a Notes object, checked under SpecNotes.                  *)
(***************************************************************************)
\* Whether a is b with some of its members left out.
RECURSIVE IsSubseq(_, _)
IsSubseq(a, b) ==
    IF a = <<>> THEN TRUE
    ELSE IF b = <<>> THEN FALSE
    ELSE IF Head(a) = Head(b) THEN IsSubseq(Tail(a), Tail(b))
    ELSE IsSubseq(a, Tail(b))

\* Whether note n satisfies every predicate that the arguments a supply.
Satisfies(n, a) ==
    /\ a.starts_with # None => startswith(name(n.path), a.starts_with[1])
    /\ a.ends_with # None => endswith(name(n.path), a.ends_with[1])
    /\ a.pattern # None => re_match(a.pattern[1], name(n.path))
    /\ a.has_meta # None =>
           \A i \in 1..Len(a.has_meta[1]) :
               has(n.metadata, a.has_meta[1][i][1], a.has_meta[1][i][2],
                   a.has_meta[1][i][3])

\* C1: filter leaves exactly the notes that satisfy every predicate it was
\* given, a predicate that is None excluding nothing.
C1_FilterKeepsIff ==
    [][last'.op = "filter" =>
           notes' = SelectSeq(notes, LAMBDA n : Satisfies(n, last'.args))]_vars

\* A filter given all four predicates has removed a note and kept one.
C1_Witness ==
    /\ last.op = "filter"
    /\ ops = 1
    /\ last.args.starts_with # None
    /\ last.args.ends_with # None
    /\ last.args.pattern # None
    /\ last.args.has_meta # None
    /\ notes # <<>>
    /\ Len(notes) < Len(base)

\* Whether some path of the list does not exist.
SomeMissing(paths) == \E i \in 1..Len(paths) : ~exists(paths[i])

\* C2: an add given a path that does not exist fails and leaves the list of
\* notes as it found it.
C2_AddAllOrNothing ==
    [][(last'.op = "add" /\ SomeMissing(last'.args.paths)) =>
           (~last'.ok /\ notes' = notes)]_vars

\* C3: after any filter calls the notes are a subsequence of the notes
\* the last add left.
C3_FilterSubsequence == IsSubseq(notes, base)

\* The second of two filters has left the first and the last of three notes.
C3_Witness ==
    /\ last.op = "filter"
    /\ last.prev = "filter"
    /\ Len(base) = 3
    /\ notes = <<base[1], base[3]>>
    /\ base[1] # base[3]

\* The paths of a list before the first that does not exist.
RECURSIVE Processed(_)
Processed(paths) ==
    IF paths = <<>> \/ ~exists(Head(paths)) THEN <<>>
    ELSE <<Head(paths)>> \o Processed(Tail(paths))

\* C9: an add appends, to the notes it found, one note per file of the paths
\* it processed, in their order, also for a file the list holds already; a
\* filter leaves a subsequence; nothing else changes the list.
C9_EnterByAddLeaveByFilter ==
    [][/\ last'.op = "add" =>
            \E ls \in Listings :
                LET ps == Processed(last'.args.paths)
                IN  notes' = notes \o
                        Flatten([i \in 1..Len(ps) |->
                                    NotesOf(ps[i], last'.args.recursive, ls)])
       /\ last'.op = "filter" => IsSubseq(notes', notes)
       /\ notes' # notes => last'.op \in {"add", "filter"}]_vars

\* An add of the same file twice has appended two notes of it to a list that
\* held one already.
C9_Witness ==
    /\ last.op = "add"
    /\ last.args.paths = <<P_a1, P_a1>>
    /\ Len(notes) = 3
    /\ \A i \in 1..3 : notes[i].path = P_a1

====
